---- MODULE Spec2Model ----
(***************************************************************************)
(* Model of the draw engine of draw-lot-app: class Slot                    *)
(* (src/src/assets/js/Slot.ts).  The engine state is the fields of Slot,   *)
(* the children of the reel container, and the part of the Web Animations  *)
(* object the engine drives (play state, onfinish handler, queued finish   *)
(* events).  One action per public operation, plus the two steps of the    *)
(* animation the suspended spin() waits for.                               *)
(***************************************************************************)
EXTENDS Integers, Sequences, FiniteSets, TLC

(* ---- bounds ---- *)
MaxReelSize == 2
MaxWinners == 2
MaxShuffleLen == 3
MaxEndHandlers == 2

(* ---- inputs: the host saves a prefix of each roster ---- *)
NameRoster == <<"a", "b">>
PrizeRoster == <<"p">>
Names == {NameRoster[i] : i \in 1..Len(NameRoster)}
Prizes == {PrizeRoster[i] : i \in 1..Len(PrizeRoster)}

\* randomNames[randomNames.length - 1] of an empty array; no candidate is spelled so
Undefined == "undefined"
\* Slot.ts:267
NoPrize == "-------"

NameLists == {SubSeq(NameRoster, 1, k) : k \in 0..Len(NameRoster)}
PrizeLists == {SubSeq(PrizeRoster, 1, k) : k \in 0..Len(PrizeRoster)}
\* maxReelItems values the constructor accepts (a negative duration makes animate() throw)
ReelSizes == 0..MaxReelSize

VARIABLES
    maxReelItems,        \* readonly configuration
    reelContainer,       \* TRUE iff document.querySelector found the container
    nameList,
    prizeList,
    winnerList,
    randomNames,
    havePreviousWinner,
    shouldRemoveWinner,
    reel,                \* reelContainer.children, as the names they display
    playState,           \* reelAnimation.playState: "idle", "running", "finished"
    onfinish,            \* reelAnimation.onfinish: 0 (null) or the spin whose resolve it is
    finishEvents,        \* finish events queued by the animation, not yet dispatched
    awaiting,            \* spin() calls suspended at `await animationPromise`
    last,                \* the most recent call: operation, result, hooks fired
    host                 \* the page around the engine: its buttons and running handlers

engine == <<maxReelItems, reelContainer, nameList, prizeList, winnerList, randomNames,
            havePreviousWinner, shouldRemoveWinner, reel, playState, onfinish,
            finishEvents, awaiting>>
vars == <<maxReelItems, reelContainer, nameList, prizeList, winnerList, randomNames,
          havePreviousWinner, shouldRemoveWinner, reel, playState, onfinish,
          finishEvents, awaiting, last, host>>

\* a call as the host observes it: the operation, what it returned, the hooks it fired
Call(op, ret, hooks) == [op |-> op, ret |-> ret, hooks |-> hooks]
\* the same, for a call whose argument the checks refer to
CallWith(op, arg, ret, hooks) == [op |-> op, arg |-> arg, ret |-> ret, hooks |-> hooks]

(* ---- array helpers (JavaScript semantics) ---- *)

\* Array.prototype.slice(0, end)
SliceTo(s, end) ==
    LET e == IF end < 0 THEN (IF Len(s) + end < 0 THEN 0 ELSE Len(s) + end)
             ELSE (IF end > Len(s) THEN Len(s) ELSE end)
    IN  SubSeq(s, 1, e)

\* Array.prototype.findIndex(x => x === v): 0-based, -1 when absent
FindIndex(s, v) ==
    IF \E i \in 1..Len(s) : s[i] = v
    THEN (CHOOSE i \in 1..Len(s) : s[i] = v /\ \A j \in 1..(i-1) : s[j] # v) - 1
    ELSE -1

\* Array.prototype.splice(start, 1)
SpliceOne(s, start) ==
    LET st == IF start < 0 THEN (IF Len(s) + start < 0 THEN 0 ELSE Len(s) + start)
              ELSE (IF start > Len(s) THEN Len(s) ELSE start)
    IN  SubSeq(s, 1, st) \o SubSeq(s, st + 2, Len(s))

\* array[array.length - 1]
LastOf(s) == IF Len(s) = 0 THEN Undefined ELSE s[Len(s)]

(* ---- Slot.shuffleNames ---- *)

\* the values Math.random() * n | 0 can take along one run on an array of length len
DrawSeqsWholeRange(len) == [1..len -> 0..(len-1)]
DrawSeqs(len) == {d \in [1..len -> 0..(len-1)] : \A k \in 1..len : d[k] <= len - k}

RECURSIVE ShuffleLoop(_, _, _, _, _, _)
ShuffleLoopNoSwap(array, draws, keys, result, k, n) ==
    IF k < Len(array) /\ n > 0
    THEN LET key == keys[draws[k + 1] + 1]
         IN  ShuffleLoop(array, draws, keys, Append(result, array[key + 1]), k + 1, n - 1)
    ELSE result
ShuffleLoop(array, draws, keys, result, k, n) ==
    IF k < Len(array) /\ n > 0
    THEN LET i == draws[k + 1]
             key == keys[i + 1]
             tmp == keys[n]            \* keys[n - 1] after n -= 1
             keys2 == [[keys EXCEPT ![n] = key] EXCEPT ![i + 1] = tmp]
         IN  ShuffleLoop(array, draws, keys2, Append(result, array[key + 1]), k + 1, n - 1)
    ELSE result

ShuffleNames(array, draws) ==
    ShuffleLoop(array, draws, [j \in 1..Len(array) |-> j - 1], <<>>, 0, Len(array))

(* ---- Slot.spin, line 183: the empty-list check ---- *)

NoCandidatesUnchecked(names) == FALSE
NoCandidates(names) == Len(names) = 0

(* ---- Slot.spin, lines 197-205: reel population ---- *)

RECURSIVE Duplicate(_, _)
Duplicate(names, max) ==
    IF Len(names) # 0 /\ Len(names) < max THEN Duplicate(names \o names, max) ELSE names

PopulateUntruncated(shuffled, max, prev) == Duplicate(shuffled, max)
Populate(shuffled, max, prev) ==
    SliceTo(Duplicate(shuffled, max), max - (IF prev THEN 1 ELSE 0))

(* ---- Slot.addWinner / Slot.getActivePrizeToDraw ---- *)

WinnerEntry(name, prize) == prize \o " - " \o name

AddWinnerOverwrites(winners, name, prize) == <<WinnerEntry(name, prize)>>
AddWinner(winners, name, prize) == Append(winners, WinnerEntry(name, prize))

ActivePrizeOffByOne(prizes) == IF Len(prizes) <= 1 THEN NoPrize ELSE prizes[1]
ActivePrize(prizes) == IF Len(prizes) <= 0 THEN NoPrize ELSE prizes[1]

(* ---- reel surface and animation ---- *)

\* Array.from(children).slice(0, children.length - 1).forEach(remove)
Collapse(children) == IF Len(children) = 0 THEN children ELSE <<children[Len(children)]>>

\* Animation.finish(): seeks to the end; entering the finished state queues one finish event
FinishState(ps) == "finished"
FinishQueued(ps, queued) == IF ps = "finished" THEN queued ELSE queued + 1

(* ---- initial state: new Slot({...}) ---- *)

\* the page before any click: draw enabled, no onSpinEnd handler running
HostStart == [drawDisabled |-> FALSE, stopDisabled |-> TRUE, endHandlers |-> 0]

Init ==
    /\ host = HostStart
    /\ maxReelItems \in ReelSizes
    /\ reelContainer \in BOOLEAN
    /\ shouldRemoveWinner \in BOOLEAN
    /\ nameList = <<>>
    /\ prizeList = <<>>
    /\ winnerList = <<>>
    /\ randomNames = <<>>
    /\ havePreviousWinner = FALSE
    /\ reel = <<>>
    /\ playState = "idle"
    /\ onfinish = 0
    /\ finishEvents = 0
    /\ awaiting = {}
    /\ last = Call("new", "", <<>>)

(* ---- operations ---- *)

\* set names(names)
SetNamesKeepsReel(lists) ==
    \E names \in lists :
        /\ nameList' = names
        /\ last' = CallWith("setNames", names, "", <<"onNameListChanged">>)
        /\ UNCHANGED <<maxReelItems, reelContainer, prizeList, winnerList, randomNames,
                       havePreviousWinner, reel,
                       shouldRemoveWinner, playState, onfinish, finishEvents, awaiting>>
SetNamesFrom(lists) ==
    \E names \in lists :
        /\ nameList' = names
        /\ reel' = <<>>
        /\ havePreviousWinner' = FALSE
        /\ last' = CallWith("setNames", names, "", <<"onNameListChanged">>)
        /\ UNCHANGED <<maxReelItems, reelContainer, prizeList, winnerList, randomNames,
                       shouldRemoveWinner, playState, onfinish, finishEvents, awaiting>>

\* set prizes(prizes)
SetPrizesFrom(lists) ==
    \E prizes \in lists :
        /\ prizeList' = prizes
        /\ last' = Call("setPrizes", "", <<>>)
        /\ UNCHANGED <<maxReelItems, reelContainer, nameList, winnerList, randomNames,
                       havePreviousWinner, shouldRemoveWinner, reel, playState, onfinish,
                       finishEvents, awaiting>>

SetNames == SetNamesFrom(NameLists)
SetPrizes == SetPrizesFrom(PrizeLists)

\* set shouldRemoveWinnerFromNameList(removeWinner)
SetShouldRemoveWinner ==
    \E removeWinner \in BOOLEAN :
        /\ shouldRemoveWinner' = removeWinner
        /\ last' = Call("setShouldRemoveWinner", "", <<>>)
        /\ UNCHANGED <<maxReelItems, reelContainer, nameList, prizeList, winnerList,
                       randomNames, havePreviousWinner, reel, playState, onfinish,
                       finishEvents, awaiting>>

\* getActivePrizeToDraw()
GetActivePrizeToDraw ==
    /\ last' = Call("getActivePrizeToDraw", ActivePrize(prizeList), <<>>)
    /\ UNCHANGED engine

\* spin(), up to `await animationPromise`
Spin ==
    \E draws \in DrawSeqs(Len(nameList)) :
        IF NoCandidates(nameList)
        THEN /\ last' = Call("spin", "false", <<>>)
             /\ UNCHANGED engine
        ELSE IF ~reelContainer
        THEN /\ last' = Call("spin", "false", <<"onSpinStart">>)
             /\ UNCHANGED engine
        ELSE LET populated == Populate(ShuffleNames(nameList, draws), maxReelItems,
                                       havePreviousWinner)
                 winner == LastOf(populated)
                 id == Len(winnerList) + 1
             IN  /\ Len(winnerList) < MaxWinners
                 /\ randomNames' = populated
                 /\ reel' = reel \o populated
                 /\ winnerList' = AddWinner(winnerList, winner, ActivePrize(prizeList))
                 /\ nameList' = IF shouldRemoveWinner
                                THEN SpliceOne(nameList, FindIndex(nameList, winner))
                                ELSE nameList
                 /\ prizeList' = SubSeq(prizeList, 2, Len(prizeList))
                 /\ onfinish' = id
                 /\ awaiting' = awaiting \cup {id}
                 /\ playState' = "running"
                 /\ last' = Call("spin", "pending", <<"onSpinStart">>)
                 /\ UNCHANGED <<maxReelItems, reelContainer, havePreviousWinner,
                                shouldRemoveWinner, finishEvents>>

\* the animation reaches the end of its last iteration
AnimationEnds ==
    /\ playState = "running"
    /\ playState' = "finished"
    /\ finishEvents' = finishEvents + 1
    /\ last' = Call("animationEnds", "", <<>>)
    /\ UNCHANGED <<maxReelItems, reelContainer, nameList, prizeList, winnerList, randomNames,
                   havePreviousWinner, shouldRemoveWinner, reel, onfinish, awaiting>>

\* a queued finish event is dispatched to reelAnimation.onfinish; the spin() whose
\* promise it resolves runs from `reelAnimation.finish()` to `return true`
FinishEvent ==
    /\ finishEvents > 0
    /\ IF onfinish \in awaiting
       THEN /\ playState' = FinishState(playState)
            /\ finishEvents' = FinishQueued(playState, finishEvents - 1)
            /\ reel' = Collapse(reel)
            /\ havePreviousWinner' = TRUE
            /\ awaiting' = awaiting \ {onfinish}
            /\ last' = Call("spinResumed", "true", <<"onSpinEnd">>)
            /\ UNCHANGED <<maxReelItems, reelContainer, nameList, prizeList, winnerList,
                           randomNames, shouldRemoveWinner, onfinish>>
       ELSE /\ finishEvents' = finishEvents - 1
            /\ last' = Call("finishEvent", "", <<>>)
            /\ UNCHANGED <<maxReelItems, reelContainer, nameList, prizeList, winnerList,
                           randomNames, havePreviousWinner, shouldRemoveWinner, reel,
                           playState, onfinish, awaiting>>

\* forceStopSpin()
ForceStopSpinRedraws ==
    /\ reelContainer
    /\ playState' = FinishState(playState)
    /\ finishEvents' = FinishQueued(playState, finishEvents)
    /\ reel' = Collapse(reel)
    /\ havePreviousWinner' = TRUE
    /\ prizeList' = SubSeq(prizeList, 2, Len(prizeList))
    /\ last' = Call("forceStopSpin", "true", <<"onSpinEnd">>)
    /\ UNCHANGED <<maxReelItems, reelContainer, nameList, winnerList,
                   randomNames, shouldRemoveWinner, onfinish, awaiting>>
ForceStopSpin ==
    IF ~reelContainer
    THEN \* reelContainer!.children throws a TypeError
         /\ last' = Call("forceStopSpin", "throws", <<>>)
         /\ UNCHANGED engine
    ELSE /\ playState' = FinishState(playState)
         /\ finishEvents' = FinishQueued(playState, finishEvents)
         /\ reel' = Collapse(reel)
         /\ havePreviousWinner' = TRUE
         /\ last' = Call("forceStopSpin", "true", <<"onSpinEnd">>)
         /\ UNCHANGED <<maxReelItems, reelContainer, nameList, prizeList, winnerList,
                        randomNames, shouldRemoveWinner, onfinish, awaiting>>

\* the engine on its own: the page is not part of these behaviours
Next ==
    \/ SetNames /\ UNCHANGED host
    \/ SetPrizes /\ UNCHANGED host
    \/ SetShouldRemoveWinner /\ UNCHANGED host
    \/ GetActivePrizeToDraw /\ UNCHANGED host
    \/ Spin /\ UNCHANGED host
    \/ AnimationEnds /\ UNCHANGED host
    \/ FinishEvent /\ UNCHANGED host
    \/ ForceStopSpin /\ UNCHANGED host

Spec == Init /\ [][Next]_vars

(* ---- the same engine, driven with a one-name list and a two-prize queue ---- *)

LongPrizeRoster == <<"p", "q">>
LongPrizeLists == {SubSeq(LongPrizeRoster, 1, k) : k \in 0..Len(LongPrizeRoster)}
ShortNameLists == {<<>>, <<"a">>}

NextPrizes ==
    \/ SetNamesFrom(ShortNameLists) /\ UNCHANGED host
    \/ SetPrizesFrom(LongPrizeLists) /\ UNCHANGED host
    \/ SetShouldRemoveWinner /\ UNCHANGED host
    \/ GetActivePrizeToDraw /\ UNCHANGED host
    \/ Spin /\ UNCHANGED host
    \/ AnimationEnds /\ UNCHANGED host
    \/ FinishEvent /\ UNCHANGED host
    \/ ForceStopSpin /\ UNCHANGED host

SpecPrizes == Init /\ [][NextPrizes]_vars

(* ---- the page: buttons wired to the slot, onSpinStart / onSpinEnd as the hooks ---- *)

InitHost ==
    /\ host = HostStart
    /\ maxReelItems = MaxReelSize
    /\ reelContainer = TRUE
    /\ shouldRemoveWinner \in BOOLEAN
    /\ nameList = <<>>
    /\ prizeList = <<>>
    /\ winnerList = <<>>
    /\ randomNames = <<>>
    /\ havePreviousWinner = FALSE
    /\ reel = <<>>
    /\ playState = "idle"
    /\ onfinish = 0
    /\ finishEvents = 0
    /\ awaiting = {}
    /\ last = Call("new", "", <<>>)

\* onSpinStart: drawButton.disabled = true; stopButton.disabled = false
OnSpinStart(h) == [h EXCEPT !.drawDisabled = TRUE, !.stopDisabled = FALSE]
\* onSpinEnd up to its first await: one more handler waits for the sounds
OnSpinEnd(h) == [h EXCEPT !.endHandlers = @ + 1]
\* onSpinEnd after its awaits: drawButton.disabled = false; stopButton.disabled = true
OnSpinEndDone(h) ==
    [h EXCEPT !.drawDisabled = FALSE, !.stopDisabled = TRUE, !.endHandlers = @ - 1]
\* the hooks a call fired, applied to the page
AfterHooks(h, hooks) ==
    IF hooks = <<"onSpinStart">> THEN OnSpinStart(h)
    ELSE IF hooks = <<"onSpinEnd">> THEN OnSpinEnd(h)
    ELSE h

\* click on "Save" of the settings page, reached through the settings button, which
\* is disabled and enabled together with the draw button
SettingsSave ==
    /\ ~host.drawDisabled
    /\ \E names \in NameLists, prizes \in LongPrizeLists, removeWinner \in BOOLEAN :
           /\ nameList' = names
           /\ reel' = <<>>
           /\ havePreviousWinner' = FALSE
           /\ prizeList' = prizes
           /\ shouldRemoveWinner' = removeWinner
           /\ last' = CallWith("settingsSave", names, "", <<"onNameListChanged">>)
    /\ UNCHANGED <<maxReelItems, reelContainer, winnerList, randomNames, playState,
                   onfinish, finishEvents, awaiting, host>>

\* click on "Draw"
DrawClick ==
    /\ ~host.drawDisabled
    /\ IF nameList = <<>> \/ prizeList = <<>>
       THEN /\ last' = Call("drawClick", "settings", <<>>)
            /\ UNCHANGED engine
            /\ UNCHANGED host
       ELSE /\ Spin
            /\ host' = AfterHooks(host, last'.hooks)

\* click on "Stop"
StopClick ==
    /\ ~host.stopDisabled
    /\ host.endHandlers < MaxEndHandlers
    /\ ForceStopSpin
    /\ host' = AfterHooks(host, last'.hooks)

\* the finish event reaches the page; a resumed spin() calls onSpinEnd
HostFinishEvent ==
    /\ (onfinish \in awaiting) => host.endHandlers < MaxEndHandlers
    /\ FinishEvent
    /\ host' = AfterHooks(host, last'.hooks)

\* soundEffects.forceStop() and soundEffects.win() have settled for one onSpinEnd
EndHandlerDone ==
    /\ host.endHandlers > 0
    /\ host' = OnSpinEndDone(host)
    /\ last' = Call("onSpinEndDone", "", <<>>)
    /\ UNCHANGED engine

NextHost ==
    \/ SettingsSave
    \/ DrawClick
    \/ StopClick
    \/ AnimationEnds /\ UNCHANGED host
    \/ HostFinishEvent
    \/ EndHandlerDone

SpecHost == InitHost /\ [][NextHost]_vars

(* ---- drawing a name list down: removal on, the names set once ---- *)

InitDrain ==
    /\ host = HostStart
    /\ maxReelItems \in 1..MaxReelSize
    /\ reelContainer = TRUE
    /\ shouldRemoveWinner = TRUE
    /\ nameList = NameRoster
    /\ prizeList \in PrizeLists
    /\ winnerList = <<>>
    /\ randomNames = <<>>
    /\ havePreviousWinner = FALSE
    /\ reel = <<>>
    /\ playState = "idle"
    /\ onfinish = 0
    /\ finishEvents = 0
    /\ awaiting = {}
    /\ last = Call("new", "", <<>>)

NextDrain ==
    \/ SetPrizes /\ UNCHANGED host
    \/ Spin /\ UNCHANGED host
    \/ AnimationEnds /\ UNCHANGED host
    \/ FinishEvent /\ UNCHANGED host
    \/ ForceStopSpin /\ UNCHANGED host

SpecDrain == InitDrain /\ [][NextDrain]_vars

(* ---- Slot.shuffleNames on its own: every array, every run of Math.random ---- *)

ShuffleAlphabet == {"a", "b", "c"}
ShuffleInputs == UNION {[1..k -> ShuffleAlphabet] : k \in 0..MaxShuffleLen}

InitShuffle ==
    /\ nameList \in ShuffleInputs
    /\ randomNames = <<>>
    /\ maxReelItems = 1
    /\ reelContainer = TRUE
    /\ shouldRemoveWinner = TRUE
    /\ prizeList = <<>>
    /\ winnerList = <<>>
    /\ havePreviousWinner = FALSE
    /\ reel = <<>>
    /\ playState = "idle"
    /\ onfinish = 0
    /\ finishEvents = 0
    /\ awaiting = {}
    /\ last = Call("new", "", <<>>)
    /\ host = HostStart

\* this.randomNames = Slot.shuffleNames(this.nameList)
ShuffleCall ==
    \E draws \in DrawSeqs(Len(nameList)) :
        /\ randomNames' = ShuffleNames(nameList, draws)
        /\ last' = CallWith("shuffleNames", draws, "", <<>>)
        /\ UNCHANGED <<maxReelItems, reelContainer, nameList, prizeList, winnerList,
                       havePreviousWinner, shouldRemoveWinner, reel, playState, onfinish,
                       finishEvents, awaiting, host>>

NextShuffle == ShuffleCall

SpecShuffle == InitShuffle /\ [][NextShuffle]_vars

\* SpinState of the specification, read off the animation
SpinState ==
    CASE playState = "running" -> "Spinning"
      [] playState = "finished" -> "Settled"
      [] OTHER -> "Idle"

TypeOK ==
    /\ maxReelItems \in ReelSizes
    /\ nameList \in Seq(Names)
    /\ prizeList \in Seq({"p", "q"})
    /\ Len(winnerList) <= MaxWinners
    /\ playState \in {"idle", "running", "finished"}
    /\ onfinish \in 0..MaxWinners
    /\ awaiting \subseteq 1..MaxWinners
    /\ finishEvents \in Nat

(* ======================= claims ======================= *)

\* the step is a spin() that passed both checks and reached the await
SpinStarts == last'.op = "spin" /\ last'.ret = "pending"
\* the labels a WinnerLog entry can carry
Labels == {"p", "q", "-------"}
\* the names a WinnerLog entry can carry
Loggable == Names \cup {"undefined"}
\* the reel shows what the flag says: one settled item when a previous winner is
\* displayed, and no spin is still suspended
ReelSettled == awaiting = {} /\ (havePreviousWinner => Len(reel) = 1)
\* the newest WinnerLog entry after the step
NewEntry == winnerList'[Len(winnerList')]

\* C1: for maxReelItems >= 1 and a non-empty NameList, a spin() that starts with no
\* previous winner displayed populates exactly maxReelItems items, appends them to the
\* reel in order, every item is an element of NameList, and the logged winner is the
\* last item of the sequence.
ReelPopulationWithoutCarryOver ==
    [][(SpinStarts /\ maxReelItems >= 1 /\ ~havePreviousWinner)
        => /\ Len(randomNames') = maxReelItems
           /\ reel' = reel \o randomNames'
           /\ \A i \in 1..Len(randomNames') :
                  \E j \in 1..Len(nameList) : randomNames'[i] = nameList[j]
           /\ Len(winnerList') = Len(winnerList) + 1
           /\ \E label \in Labels :
                  NewEntry = label \o " - " \o randomNames'[maxReelItems]]_vars

\* C1 witness: a one-name list was doubled to fill a two-item reel, no carry-over
DoubledReelPopulated ==
    /\ last.op = "spin" /\ last.ret = "pending"
    /\ ~havePreviousWinner
    /\ maxReelItems = 2
    /\ randomNames = <<"a", "a">>
    /\ reel = <<"a", "a">>

\* C2 (as claimed): after any successful spin() with maxReelItems >= 1, WinnerLog has
\* grown by exactly one entry and the winner name in it is an element of the NameList
\* the spin started from.
WinnerDrawnFromNameList ==
    [][(SpinStarts /\ maxReelItems >= 1 /\ ReelSettled)
        => /\ SubSeq(winnerList', 1, Len(winnerList)) = winnerList
           /\ Len(winnerList') = Len(winnerList) + 1
           /\ \E label \in Labels : \E j \in 1..Len(nameList) :
                  NewEntry = label \o " - " \o nameList[j]]_vars

\* C3 (as claimed): after a successful spin() with winner removal enabled, NameList is
\* the pre-spin NameList without the first occurrence of the logged winner name, order
\* kept; with removal disabled NameList is unchanged.
WinnerRemovedOnce ==
    [][(SpinStarts /\ maxReelItems >= 1 /\ ReelSettled)
        => IF shouldRemoveWinner
           THEN \E label \in Labels : \E j \in 1..Len(nameList) :
                    /\ NewEntry = label \o " - " \o nameList[j]
                    /\ \A i \in 1..(j - 1) : nameList[i] # nameList[j]
                    /\ nameList' = SubSeq(nameList, 1, j - 1) \o SubSeq(nameList, j + 1, Len(nameList))
           ELSE nameList' = nameList]_vars

\* C4: spin() on an empty NameList returns failure, fires no hook and changes nothing.
EmptyNameListSpinIsNoOp ==
    [][(last'.op = "spin" /\ nameList = <<>>)
        => /\ last'.ret = "false"
           /\ last'.hooks = <<>>
           /\ UNCHANGED engine]_vars

\* C4 witness: the draw that removed the only name has settled, and the next spin() failed
SpinFailedOnEmptiedList ==
    /\ last.op = "spin" /\ last.ret = "false" /\ last.hooks = <<>>
    /\ nameList = <<>>
    /\ havePreviousWinner
    /\ Len(winnerList) = 1
    /\ Len(reel) = 1

\* C5 (as claimed): spin() called while a spin is in flight is rejected without side
\* effects, so at most one spin is ever in flight.
SpinWhileSpinningRejected ==
    [][(last'.op = "spin" /\ maxReelItems >= 1 /\ SpinState = "Spinning" /\ awaiting # {})
        => /\ winnerList' = winnerList
           /\ nameList' = nameList
           /\ prizeList' = prizeList
           /\ reel' = reel
           /\ last'.hooks = <<>>
           /\ Cardinality(awaiting') <= 1]_vars

\* C6 (as claimed): forceStopSpin() while Spinning settles the engine, and the spin-end
\* hook fires once in total for that spin: after forceStopSpin() fired it, the resumed
\* spin() does not fire it again.
ForceStopFiresEndHookOnce ==
    [][maxReelItems >= 1
        => /\ (last'.op = "forceStopSpin" /\ SpinState = "Spinning" /\ awaiting # {})
              => (SpinState' = "Settled" /\ last'.hooks = <<"onSpinEnd">>)
           /\ (last.op = "forceStopSpin" /\ last.hooks = <<"onSpinEnd">>
               /\ onfinish \in awaiting /\ last'.op = "spinResumed")
              => last'.hooks = <<>>]_vars

\* C7 (as claimed): forceStopSpin() with no spin in flight is a no-op.
ForceStopWhenNotSpinningIsNoOp ==
    [][(last'.op = "forceStopSpin" /\ maxReelItems >= 1 /\ SpinState # "Spinning"
        /\ awaiting = {})
        => (last'.hooks = <<>> /\ UNCHANGED engine)]_vars

\* C8 (as claimed): a spin() that starts while the previous winner is displayed draws
\* exactly maxReelItems - 1 new items and the reel then holds exactly maxReelItems items.
CarryOverKeepsReelLength ==
    [][(SpinStarts /\ maxReelItems >= 1 /\ havePreviousWinner)
        => /\ Len(randomNames') = maxReelItems - 1
           /\ Len(reel') = maxReelItems]_vars

\* C9: a successful spin() logs "<P> - <winner>" with P the head of PrizeQueue, or the
\* placeholder when the queue is empty, then removes exactly the head, whatever the
\* removal setting; getActivePrizeToDraw() returns P and changes nothing.
PrizeLoggedThenConsumed ==
    [][LET P == IF prizeList = <<>> THEN "-------" ELSE Head(prizeList)
       IN  /\ SpinStarts
              => /\ \E w \in Loggable : winnerList' = Append(winnerList, P \o " - " \o w)
                 /\ prizeList' = IF prizeList = <<>> THEN <<>> ELSE Tail(prizeList)
           /\ last'.op = "getActivePrizeToDraw"
              => (last'.ret = P /\ UNCHANGED engine)]_vars

\* C9 witness: with removal disabled, the head of a two-prize queue was logged and popped
HeadPrizeConsumed ==
    /\ last.op = "spin" /\ last.ret = "pending"
    /\ ~shouldRemoveWinner
    /\ prizeList = <<"q">>
    /\ winnerList = <<"p - a">>

\* C10 (as claimed): no engine with maxReelItems < 1 reaches a state in which spin()
\* can be called.
InvalidConfigurationRejected ==
    last.op = "spin" => maxReelItems >= 1

\* how often x occurs in s
Occurrences(s, x) == Cardinality({i \in 1..Len(s) : s[i] = x})
\* the orderings of the items of s
Orderings(s) ==
    {p \in [1..Len(s) -> {s[i] : i \in 1..Len(s)}] :
        \A x \in ShuffleAlphabet : Occurrences(p, x) = Occurrences(s, x)}
\* the runs of Math.random that make shuffleNames(s) return p
RunsGiving(s, p) == {d \in DrawSeqs(Len(s)) : ShuffleNames(s, d) = p}

\* C11: for every input (empty and with duplicates included) and every outcome of the
\* random draws, shuffleNames returns a sequence of the same length with the same
\* multiset of elements, and the input is left as it was.
ShuffleIsPermutation ==
    [][last'.op = "shuffleNames"
        => /\ nameList' = nameList
           /\ Len(randomNames') = Len(nameList)
           /\ \A x \in ShuffleAlphabet :
                  Occurrences(randomNames', x) = Occurrences(nameList, x)]_vars

\* C11 witness: an input with a duplicate came back in another order
DuplicateInputShuffled ==
    /\ last.op = "shuffleNames"
    /\ nameList = <<"a", "b", "a">>
    /\ randomNames = <<"a", "a", "b">>

\* C12: for an input of n distinct items every one of the n! orderings is a possible
\* output, and each arises from the same number of equally likely runs of draws.
ShuffleIsUniform ==
    (\A i, j \in 1..Len(nameList) : nameList[i] = nameList[j] => i = j)
        => \A p, q \in Orderings(nameList) :
               /\ RunsGiving(nameList, p) # {}
               /\ Cardinality(RunsGiving(nameList, p)) = Cardinality(RunsGiving(nameList, q))
               /\ Cardinality(Orderings(nameList)) * Cardinality(RunsGiving(nameList, p))
                      = Cardinality(DrawSeqs(Len(nameList)))

\* C12 witness: three distinct items were shuffled into a cyclic shift
DistinctInputShuffled ==
    /\ last.op = "shuffleNames"
    /\ nameList = <<"a", "b", "c">>
    /\ randomNames = <<"c", "a", "b">>

\* C13: every spin attempt that fires onSpinStart is followed by exactly one onSpinEnd,
\* also when the reel container or the animation is missing. A call of spin() that has
\* fired onSpinStart and returned has nothing left to run, so it must have fired
\* onSpinEnd itself.
SpinStartAnsweredBySpinEnd ==
    (maxReelItems >= 1 /\ last.op = "spin" /\ last.ret = "false"
         /\ last.hooks # <<>> /\ last.hooks[1] = "onSpinStart")
        => \E i \in 1..Len(last.hooks) : last.hooks[i] = "onSpinEnd"

\* C14 (as claimed): setNames() or setPrizes() during a spin leaves SpinState alone and
\* does not affect the spin in flight: when that spin settles, by natural completion or
\* by forceStopSpin(), the reel holds exactly the item of the winner logged at its start.
SettersLeaveSpinInFlightAlone ==
    [][/\ last'.op \in {"setNames", "setPrizes"} => SpinState' = SpinState
       /\ (/\ last'.op \in {"spinResumed", "forceStopSpin"}
           /\ maxReelItems >= 2
           /\ awaiting = {Len(winnerList)})
          => /\ Len(reel') = 1
             /\ \E label \in Labels :
                    winnerList[Len(winnerList)] = label \o " - " \o reel'[1]]_vars

\* C15 (as claimed, read in the states where no spin is in flight): whenever the
\* previous-winner flag is true the reel holds exactly one item, and it is the winner
\* name of the newest WinnerLog entry.
FlagMeansLatestWinnerShown ==
    (havePreviousWinner /\ maxReelItems >= 1 /\ SpinState # "Spinning" /\ awaiting = {})
        => /\ Len(reel) = 1
           /\ winnerList # <<>>
           /\ \E label \in Labels :
                  winnerList[Len(winnerList)] = label \o " - " \o reel[1]

\* C16: forceStopSpin() never alters the outcome of the draw: in every state it leaves
\* WinnerLog, NameList and PrizeQueue as they were.
ForceStopKeepsOutcome ==
    [][last'.op = "forceStopSpin"
        => (winnerList' = winnerList /\ nameList' = nameList /\ prizeList' = prizeList)]_vars

\* C16 witness: a spin was stopped while a name, a queued prize and a log entry existed
SpinStoppedWithOutcomeKept ==
    /\ last.op = "forceStopSpin" /\ last.ret = "true"
    /\ awaiting # {}
    /\ nameList = <<"a">>
    /\ prizeList = <<"q">>
    /\ winnerList = <<"p - a">>

\* C17: setNames(names) replaces NameList with names, empties the reel, sets the
\* previous-winner flag to false and fires onNameListChanged exactly once, and leaves
\* PrizeQueue, WinnerLog and the winner-removal setting unchanged.
SetNamesEffects ==
    [][last'.op = "setNames"
        => /\ nameList' = last'.arg
           /\ reel' = <<>>
           /\ ~havePreviousWinner'
           /\ last'.hooks = <<"onNameListChanged">>
           /\ prizeList' = prizeList
           /\ winnerList' = winnerList
           /\ shouldRemoveWinner' = shouldRemoveWinner]_vars

\* C17 witness: after a draw was logged and settled, setNames() left an empty reel, a
\* cleared flag, the log entry and the queued prize
NamesReplacedAfterDraw ==
    /\ last.op = "setNames" /\ last.arg = <<"a">>
    /\ nameList = <<"a">>
    /\ reel = <<>>
    /\ ~havePreviousWinner
    /\ awaiting = {}
    /\ winnerList = <<"p - a">>
    /\ prizeList = <<"q">>

\* C18: WinnerLog is append-only: in every step the previous WinnerLog is a prefix of
\* the new one, and only a spin() that passes the non-empty check extends it.
WinnerLogAppendOnly ==
    [][/\ Len(winnerList') >= Len(winnerList)
       /\ SubSeq(winnerList', 1, Len(winnerList)) = winnerList
       /\ winnerList' # winnerList => (last'.op = "spin" /\ nameList # <<>>)]_vars

\* C18 witness: a second spin() has extended a log that already held an entry
SecondEntryAppended ==
    /\ last.op = "spin" /\ last.ret = "pending"
    /\ winnerList = <<"p - a", "q - a">>

\* C19 (as claimed): the draw control is disabled from onSpinStart until the onSpinEnd
\* handler has finished, so no click on it can invoke slot.spin() while a spin is in
\* flight: whenever the newest spin() is suspended on a running reel (every earlier one
\* has returned, no finish event is queued), the draw control is disabled or a click on
\* it would only open the settings.
DrawDisabledWhileSpinning ==
    (SpinState = "Spinning" /\ awaiting = {Len(winnerList)} /\ finishEvents = 0)
        => (host.drawDisabled \/ nameList = <<>> \/ prizeList = <<>>)

\* how often the name x was logged as a winner
Logged(x) ==
    Cardinality({i \in 1..Len(winnerList) :
                    \E label \in Labels : winnerList[i] = label \o " - " \o x})
\* WinnerLog and NameList together hold each initial name exactly as often as the
\* initial NameList did
DrawnOrLeft ==
    /\ Len(winnerList) + Len(nameList) = Len(NameRoster)
    /\ \A x \in Names : Logged(x) + Occurrences(nameList, x) = Occurrences(NameRoster, x)

\* C20 (as claimed): with removal enabled and no setNames(), a NameList of k entries
\* allows exactly k successful spins and each occurrence wins at most once: every
\* spin() from a settled reel moves one name from NameList to WinnerLog, so the logged
\* names end as the initial multiset, and spin() on the emptied list fails.
NameListDrainsIntoLog ==
    [][/\ (SpinStarts /\ ReelSettled /\ DrawnOrLeft)
          => (Len(nameList') = Len(nameList) - 1 /\ DrawnOrLeft')
       /\ (last'.op = "spin" /\ nameList = <<>>) => last'.ret = "false"]_vars
====
